---- MODULE Spec2Model ----
(***************************************************************************)
(* Model of taskcluster/android_taskgraph/loader/multi_dep.py: the         *)
(* generator `loader`, `assert_unique_members` and `get_primary_dep`.      *)
(*                                                                         *)
(* Python values are modelled as follows.  A str is a TLA+ string, a list  *)
(* is a sequence.  Every other object is a record whose field names tell   *)
(* its type: None is [none |-> TRUE], a Task is [kind, label], a dict is   *)
(* [items |-> <<[k, v], ...>>] (items in insertion order, keys pairwise    *)
(* distinct), an opaque value read from kind.yml is [yaml |-> ...].        *)
(* The interpreter is Python 3 run with assertions enabled.                *)
(***************************************************************************)
EXTENDS Integers, Sequences, FiniteSets

\* Bounds of the model.
MaxGroups == 2
MaxGroupSize == 2
MaxPrimaryList == 2

\* The kinds and labels of the upstream tasks.
Kinds == {"build", "signing"}
Labels == {"x", "y"}

VARIABLES config, groups, i, yielded, status, exc, primary_calls, unique_calls

vars == <<config, groups, i, yielded, status, exc, primary_calls, unique_calls>>

----------------------------------------------------------------------------
\* Python objects

None == [none |-> TRUE]

Task == [kind : Kinds, label : Labels]

Yaml == [yaml |-> "v"]

IsTask(v) == DOMAIN v = {"kind", "label"}

IsDict(v) == DOMAIN v = {"items"}

SeqsUpTo(S, n) == UNION {[1..m -> S] : m \in 0..n}

EmptyDict == [items |-> <<>>]

DictKeys(d) == {d.items[n].k : n \in 1..Len(d.items)}

DictLen(d) == Len(d.items)

\* d[k], for a key the dict has
DictGet(d, k) == d.items[CHOOSE n \in 1..Len(d.items) : d.items[n].k = k].v

\* d[k] = v: an existing key keeps its position, a new key is appended
DictSet(d, k, v) ==
    IF k \in DictKeys(d)
    THEN [items |-> [n \in 1..Len(d.items) |->
                       IF d.items[n].k = k THEN [k |-> k, v |-> v] ELSE d.items[n]]]
    ELSE [items |-> Append(d.items, [k |-> k, v |-> v])]

RECURSIVE DictUpdateFrom(_, _, _)
DictUpdateFrom(d, other, n) ==
    IF n > Len(other.items) THEN d
    ELSE DictUpdateFrom(DictSet(d, other.items[n].k, other.items[n].v), other, n + 1)

\* d.update(other)
DictUpdate(d, other) == DictUpdateFrom(d, other, 1)

\* The outcome of a call: a returned value or a raised exception.
Return(v) == [ok |-> TRUE, value |-> v]

Raise(type, msg) == [ok |-> FALSE, exc |-> [type |-> type, msg |-> msg]]

----------------------------------------------------------------------------
\* The kind configuration (kind.yml) and the groups group_tasks returns

PrimaryDependencyValues ==
    {[tag |-> "none"]}
    \cup {[tag |-> "str", str |-> s] : s \in Kinds \cup {""}}
    \cup {[tag |-> "list", list |-> l] : l \in SeqsUpTo(Kinds, MaxPrimaryList)}

TemplateKeys == {"description", "dependent-tasks", "primary-dependency"}

TaskTemplateValues ==
    {None, EmptyDict}
    \cup {[items |-> <<[k |-> key, v |-> Yaml]>>] : key \in TemplateKeys}
    \cup {[items |-> <<[k |-> "dependent-tasks", v |-> Yaml],
                        [k |-> "primary-dependency", v |-> Yaml]>>]}

Configs == [primary : PrimaryDependencyValues, template : TaskTemplateValues]

Groups == SeqsUpTo(Task, MaxGroupSize) \ {<<>>}

GroupSeqs == SeqsUpTo(Groups, MaxGroups)

----------------------------------------------------------------------------
\* assert_unique_members

ErrorMsg == "multi_dep.py should have filtered down to one task per kind"

SetOf(s) == {s[n] : n \in 1..Len(s)}

\* Variant: the comparison of the two lengths is strict the wrong way round,
\* so a repeated member is never reported.
assert_unique_members_mut(kinds, error_msg) ==
    IF Len(kinds) < Cardinality(SetOf(kinds))
    THEN Raise("Exception", error_msg)
    ELSE Return(None)

assert_unique_members(kinds, error_msg) ==
    IF Len(kinds) # Cardinality(SetOf(kinds))
    THEN Raise("Exception", error_msg)
    ELSE Return(None)

----------------------------------------------------------------------------
\* get_primary_dep

\* Variant: the isinstance test of line 78 misses, so a str is not wrapped and
\* the loop of line 84 runs over its characters, none of which is a kind.
primary_dependencies_mut(cfg) ==
    CASE cfg.primary.tag = "none" -> None
      [] cfg.primary.tag = "str" ->
           [list |-> IF cfg.primary.str = "" THEN <<>> ELSE <<"?">>]
      [] cfg.primary.tag = "list" -> [list |-> cfg.primary.list]

\* config.get("primary-dependency"), a str wrapped into a one-element list;
\* None stays None
primary_dependencies(cfg) ==
    CASE cfg.primary.tag = "none" -> None
      [] cfg.primary.tag = "str" -> [list |-> <<cfg.primary.str>>]
      [] cfg.primary.tag = "list" -> [list |-> cfg.primary.list]

\* `not primary_dependencies`: None and the empty list are falsy
Falsy(pd) == pd = None \/ pd.list = <<>>

\* The loops keep primary_dep and whether the assert of lines 87-91 failed.
RECURSIVE InnerLoop(_, _, _, _)
InnerLoop(dep_tasks, primary_kind, n, st) ==
    IF st.failed \/ n > Len(dep_tasks.items) THEN st
    ELSE LET dep_kind == dep_tasks.items[n].k IN
         IF dep_kind = primary_kind
         THEN IF st.primary_dep # None
              THEN [st EXCEPT !.failed = TRUE]
              ELSE InnerLoop(dep_tasks, primary_kind, n + 1,
                             [st EXCEPT !.primary_dep = DictGet(dep_tasks, dep_kind)])
         ELSE InnerLoop(dep_tasks, primary_kind, n + 1, st)

RECURSIVE OuterLoop(_, _, _, _)
OuterLoop(dep_tasks, kinds, n, st) ==
    IF st.failed \/ n > Len(kinds) THEN st
    ELSE OuterLoop(dep_tasks, kinds, n + 1, InnerLoop(dep_tasks, kinds[n], 1, st))

get_primary_dep(cfg, dep_tasks) ==
    LET pd == primary_dependencies(cfg) IN
    IF Falsy(pd)
    THEN IF DictLen(dep_tasks) # 1
         THEN Raise("AssertionError", "Must define a primary-dependency!")
         \* dep_tasks.values()[0]: a dict view is not subscriptable
         ELSE Raise("TypeError", "'dict_values' object is not subscriptable")
    ELSE LET st == OuterLoop(dep_tasks, pd.list, 1,
                             [failed |-> FALSE, primary_dep |-> None]) IN
         IF st.failed
         \* the assert's message reads t.label of the dict's keys, which are str
         THEN Raise("AttributeError", "'str' object has no attribute 'label'")
         ELSE IF st.primary_dep = None
         THEN Raise("Exception", "Can't find dependency")
         ELSE Return(st.primary_dep)

----------------------------------------------------------------------------
\* loader

\* [dep.kind for dep in dep_tasks]
KindsOf(dep_tasks) == [n \in 1..Len(dep_tasks) |-> dep_tasks[n].kind]

RECURSIVE DictFromTasks(_, _, _)
DictFromTasks(d, dep_tasks, n) ==
    IF n > Len(dep_tasks) THEN d
    ELSE DictFromTasks(DictSet(d, dep_tasks[n].kind, dep_tasks[n]), dep_tasks, n + 1)

RECURSIVE DictFromTasksByLabel(_, _, _)
DictFromTasksByLabel(d, dep_tasks, n) ==
    IF n > Len(dep_tasks) THEN d
    ELSE DictFromTasksByLabel(DictSet(d, dep_tasks[n].label, dep_tasks[n]),
                              dep_tasks, n + 1)

\* Variant: the comprehension keys the dict by dep.label.
dep_tasks_per_kind_mut(dep_tasks) == DictFromTasksByLabel(EmptyDict, dep_tasks, 1)

\* {dep.kind: dep for dep in dep_tasks}
dep_tasks_per_kind(dep_tasks) == DictFromTasks(EmptyDict, dep_tasks, 1)

\* `if task_template`: None and the empty dict are falsy
TemplateTruthy(task_template) == task_template # None /\ task_template.items # <<>>

\* Variant: line 56 stores the dict it passes to get_primary_dep instead of
\* the task get_primary_dep returns.
BuildTask_mut(cfg, per_kind, primary) ==
    LET task0 == DictSet(EmptyDict, "dependent-tasks", per_kind)
        task1 == DictSet(task0, "primary-dependency", per_kind)
    IN IF TemplateTruthy(cfg.template) THEN DictUpdate(task1, cfg.template) ELSE task1

\* The task of lines 55-58, given the primary dependency.
\* copy.deepcopy gives a value equal to the template.
BuildTask(cfg, per_kind, primary) ==
    LET task0 == DictSet(EmptyDict, "dependent-tasks", per_kind)
        task1 == DictSet(task0, "primary-dependency", primary)
    IN IF TemplateTruthy(cfg.template) THEN DictUpdate(task1, cfg.template) ELSE task1

\* One iteration of the loop of line 46, on the group dep_tasks.
LoopBody(cfg, dep_tasks) ==
    LET unique == assert_unique_members(KindsOf(dep_tasks), ErrorMsg)
        per_kind == dep_tasks_per_kind(dep_tasks)
        primary == get_primary_dep(cfg, per_kind)
    IN IF ~unique.ok THEN unique
       ELSE IF ~primary.ok THEN primary
       ELSE Return(BuildTask(cfg, per_kind, primary.value))

UniqueCall(dep_tasks) ==
    [kinds |-> KindsOf(dep_tasks),
     result |-> assert_unique_members(KindsOf(dep_tasks), ErrorMsg)]

PrimaryCall(cfg, dep_tasks) ==
    [dep_tasks |-> dep_tasks_per_kind(dep_tasks),
     result |-> get_primary_dep(cfg, dep_tasks_per_kind(dep_tasks))]

Init ==
    /\ config \in Configs
    /\ groups \in GroupSeqs
    /\ i = 1
    /\ yielded = <<>>
    /\ status = "running"
    /\ exc = None
    /\ primary_calls = <<>>
    /\ unique_calls = <<>>

\* next(): the group passes both checks and its task is yielded
LoaderYield ==
    /\ status = "running"
    /\ i <= Len(groups)
    /\ LoopBody(config, groups[i]).ok
    /\ yielded' = Append(yielded, LoopBody(config, groups[i]).value)
    /\ i' = i + 1
    /\ unique_calls' = Append(unique_calls, UniqueCall(groups[i]))
    /\ primary_calls' = Append(primary_calls, PrimaryCall(config, groups[i]))
    /\ UNCHANGED <<config, groups, status, exc>>

\* next(): assert_unique_members raises
LoaderRaiseNotUnique ==
    /\ status = "running"
    /\ i <= Len(groups)
    /\ ~assert_unique_members(KindsOf(groups[i]), ErrorMsg).ok
    /\ status' = "raised"
    /\ exc' = LoopBody(config, groups[i]).exc
    /\ unique_calls' = Append(unique_calls, UniqueCall(groups[i]))
    /\ UNCHANGED <<config, groups, i, yielded, primary_calls>>

\* next(): get_primary_dep raises
LoaderRaisePrimary ==
    /\ status = "running"
    /\ i <= Len(groups)
    /\ assert_unique_members(KindsOf(groups[i]), ErrorMsg).ok
    /\ ~LoopBody(config, groups[i]).ok
    /\ status' = "raised"
    /\ exc' = LoopBody(config, groups[i]).exc
    /\ unique_calls' = Append(unique_calls, UniqueCall(groups[i]))
    /\ primary_calls' = Append(primary_calls, PrimaryCall(config, groups[i]))
    /\ UNCHANGED <<config, groups, i, yielded>>

\* next(): the groups are exhausted (StopIteration)
LoaderStop ==
    /\ status = "running"
    /\ i > Len(groups)
    /\ status' = "done"
    /\ UNCHANGED <<config, groups, i, yielded, exc, primary_calls, unique_calls>>

Next == LoaderYield \/ LoaderRaiseNotUnique \/ LoaderRaisePrimary \/ LoaderStop

Spec == Init /\ [][Next]_vars

TypeOK ==
    /\ config \in Configs
    /\ groups \in GroupSeqs
    /\ i \in 1..(Len(groups) + 1)
    /\ status \in {"running", "done", "raised"}
    /\ Len(yielded) <= Len(groups)

----------------------------------------------------------------------------
\* Vocabulary of the properties

PairwiseDistinctKinds(g) ==
    \A a, b \in 1..Len(g) : a # b => g[a].kind # g[b].kind

HasRepeatedKind(g) == ~PairwiseDistinctKinds(g)

\* The kinds the configuration lists, in order (a string lists itself).
ListedKinds ==
    CASE config.primary.tag = "none" -> <<>>
      [] config.primary.tag = "str" -> <<config.primary.str>>
      [] config.primary.tag = "list" -> config.primary.list

\* The positions of ListedKinds whose kind has a task in the group g.
MatchingPositions(g) ==
    {n \in 1..Len(ListedKinds) : \E m \in 1..Len(g) : g[m].kind = ListedKinds[n]}

\* A primary dependency can be selected in g: one listed kind has a task.
PrimarySelectable(g) == Cardinality(MatchingPositions(g)) = 1

AllGroupsGood ==
    \A j \in 1..Len(groups) :
        PairwiseDistinctKinds(groups[j]) /\ PrimarySelectable(groups[j])

TemplateHasKey(key) ==
    config.template # None /\ key \in DictKeys(config.template)

\* v is the mapping kind -> task of exactly the tasks of g.
IsMappingOf(v, g) ==
    /\ IsDict(v)
    /\ DictLen(v) = Len(g)
    /\ DictKeys(v) = {g[n].kind : n \in 1..Len(g)}
    /\ \A n \in 1..Len(g) : DictGet(v, g[n].kind) = g[n]

OnePerGroupInOrder ==
    /\ status # "raised"
    /\ Len(yielded) = i - 1
    /\ (status = "done" => Len(yielded) = Len(groups))
    /\ \A j \in 1..Len(yielded) :
          /\ "dependent-tasks" \in DictKeys(yielded[j])
          /\ IsMappingOf(DictGet(yielded[j], "dependent-tasks"), groups[j])

UniquenessException == [type |-> "Exception", msg |-> ErrorMsg]

\* C1 as stated: when every group has pairwise distinct kinds and a
\* selectable primary dependency, loader yields one task definition per
\* group, in the order of the groups, and the 'dependent-tasks' entry of the
\* j-th definition is the mapping kind -> task of exactly the j-th group.
C1_AsStated == AllGroupsGood => OnePerGroupInOrder

\* C1 amended: the same, provided the task-template (if any) has no
\* 'dependent-tasks' key; line 58 lets the template replace the entry.
C1_DependentTasksPerGroup ==
    (AllGroupsGood /\ ~TemplateHasKey("dependent-tasks")) => OnePerGroupInOrder

C1_Witness ==
    /\ status = "done"
    /\ Len(groups) = 2
    /\ Len(yielded) = 2
    /\ AllGroupsGood
    /\ TemplateTruthy(config.template)
    /\ ~TemplateHasKey("dependent-tasks")
    /\ Len(groups[1]) = 2
    /\ groups[1] # groups[2]

\* The first listed kind that has a dep in the dict d.
FirstMatchingKind(d) ==
    ListedKinds[CHOOSE n \in 1..Len(ListedKinds) :
                   /\ ListedKinds[n] \in DictKeys(d)
                   /\ \A m \in 1..(n - 1) : ListedKinds[m] \notin DictKeys(d)]

\* C2: when primary-dependency is a list of which at least one kind has a
\* dep in dep_tasks, get_primary_dep returns the dep of the first such kind
\* of the list, also when several listed kinds have a dep.
C2_ListReturnsFirstMatch ==
    config.primary.tag = "list" =>
        \A c \in 1..Len(primary_calls) :
            (\E n \in 1..Len(ListedKinds) :
                 ListedKinds[n] \in DictKeys(primary_calls[c].dep_tasks))
            => primary_calls[c].result =
                 Return(DictGet(primary_calls[c].dep_tasks,
                                FirstMatchingKind(primary_calls[c].dep_tasks)))

\* C3: when primary-dependency is undefined, get_primary_dep returns the
\* first dep of dep_tasks, for every non-empty dep_tasks.
C3_UndefinedReturnsFirstDep ==
    config.primary.tag = "none" =>
        \A c \in 1..Len(primary_calls) :
            DictLen(primary_calls[c].dep_tasks) >= 1
            => primary_calls[c].result = Return(primary_calls[c].dep_tasks.items[1].v)

\* C4: when primary-dependency is a string, get_primary_dep does what it
\* does for the one-element list of that string, and returns the dep of
\* that kind whenever dep_tasks has one.
C4_StringIsOneElementList ==
    config.primary.tag = "str" =>
        \A c \in 1..Len(primary_calls) :
            /\ primary_calls[c].result =
                 get_primary_dep(
                     [config EXCEPT !.primary =
                         [tag |-> "list", list |-> <<config.primary.str>>]],
                     primary_calls[c].dep_tasks)
            /\ config.primary.str \in DictKeys(primary_calls[c].dep_tasks)
               => primary_calls[c].result =
                    Return(DictGet(primary_calls[c].dep_tasks, config.primary.str))

C4_Witness ==
    /\ config.primary.tag = "str"
    /\ Len(primary_calls) = 2
    /\ DictLen(primary_calls[2].dep_tasks) = 2
    /\ primary_calls[2].dep_tasks.items[2].k = config.primary.str
    /\ primary_calls[2].result.ok

\* assert_unique_members raised exactly on the lists with a repeated member.
UniqueCallsExact ==
    \A c \in 1..Len(unique_calls) :
        LET kinds == unique_calls[c].kinds IN
        IF \E a, b \in 1..Len(kinds) : a # b /\ kinds[a] = kinds[b]
        THEN unique_calls[c].result = Raise("Exception", ErrorMsg)
        ELSE unique_calls[c].result.ok

\* C5 as stated, on the configurations whose primary-dependency is a string
\* (there get_primary_dep does what its docstring says): when some group has
\* two tasks of one kind, loader raises the Exception 'multi_dep.py should
\* have filtered down to one task per kind' and yields nothing for that
\* group or a later one, and assert_unique_members raises exactly on a list
\* with a repeated member.
C5_AsStated ==
    config.primary.tag = "str" =>
        /\ \A j \in 1..Len(groups) :
              HasRepeatedKind(groups[j]) =>
                  /\ Len(yielded) < j
                  /\ status # "running"
                     => (status = "raised" /\ exc = UniquenessException)
        /\ UniqueCallsExact

\* C5 amended: loader raises that Exception when it yielded a definition
\* for every group before the one with two tasks of one kind (an earlier
\* group may end the loader with another exception); the rest as stated.
C5_UniquenessAssertion ==
    /\ \A j \in 1..Len(groups) :
          HasRepeatedKind(groups[j]) =>
              /\ Len(yielded) < j
              /\ (status # "running" /\ Len(yielded) = j - 1)
                 => (status = "raised" /\ exc = UniquenessException)
    /\ UniqueCallsExact

C5_Witness ==
    /\ Len(groups) = 2
    /\ HasRepeatedKind(groups[2])
    /\ Len(yielded) = 1
    /\ status = "raised"
    /\ exc = UniquenessException
    /\ Len(unique_calls) = 2

\* C6: in every yielded definition whose two loader keys no task-template
\* overrides, 'primary-dependency' is one task, it is the entry of its kind
\* in the definition's 'dependent-tasks', and it is a task of the group the
\* definition was made from.
C6_PrimaryIsMember ==
    (~TemplateHasKey("dependent-tasks") /\ ~TemplateHasKey("primary-dependency")) =>
        \A j \in 1..Len(yielded) :
            LET p == DictGet(yielded[j], "primary-dependency")
                d == DictGet(yielded[j], "dependent-tasks")
            IN /\ IsTask(p)
               /\ IsDict(d)
               /\ p.kind \in DictKeys(d)
               /\ DictGet(d, p.kind) = p
               /\ \E n \in 1..Len(groups[j]) : groups[j][n] = p

C6_Witness ==
    /\ ~TemplateHasKey("dependent-tasks")
    /\ ~TemplateHasKey("primary-dependency")
    /\ Len(yielded) = 2
    /\ Len(groups[2]) = 2
    /\ \A n \in 1..Len(groups[1]) :
          groups[1][n] # DictGet(yielded[2], "primary-dependency")
====
